---- MODULE Spec2Model ----
(***************************************************************************)
(* StaleMate: the agent/search subsystem (player_models.py) and the        *)
(* heuristic evaluation layer (score_heuristics.py).                       *)
(*                                                                         *)
(* Python floats are modelled exactly as integers counting quarters        *)
(* (F(n) is the float n): every value the heuristics produce on integer    *)
(* weights is a multiple of 1/4, and the order of floats is kept.          *)
(* Python None is the empty tuple; a move is a tuple <<row, col>>.         *)
(***************************************************************************)
EXTENDS Integers, Sequences, FiniteSets, TLC

\* ------------------------------------------------------------ bounds
MaxDepth == 3
MaxTicks == 2
MaxReads == 2
MaxWeight == 2
MaxLine == 2

\* ------------------------------------------------------------ floats
F(n) == 4 * n

WIN_MAGNITUDE == 1000000

inf == F(WIN_MAGNITUDE) + 1

Max(a, b) == IF a >= b THEN a ELSE b

Min(a, b) == IF a <= b THEN a ELSE b

RECURSIVE SumSeq(_)
SumSeq(s) == IF s = <<>> THEN 0 ELSE Head(s) + SumSeq(Tail(s))

None == <<>>

NO_MOVE == <<-1, -1>>

\* ------------------------------------------------------------ the Board
\* The board collaborator (chesswar.Board): a grid of height x width cells,
\* two players 1 and 2, each standing on a cell; every cell a player has
\* stood on is blocked; the active player moves one step in one of the
\* eight directions to a cell that is on the board and not blocked.
height == 3

width == 3

Cells == {<<r, c>> : r \in 0..(height - 1), c \in 0..(width - 1)}

Directions == << <<-1, 0>>, <<-1, 1>>, <<0, 1>>, <<1, 1>>,
                 <<1, 0>>, <<1, -1>>, <<0, -1>>, <<-1, -1>> >>

get_opponent(game, player) == 3 - player

active_player(game) == game.active

get_player_location(game, player) == game.loc[player]

get_legal_moves(game, player) ==
    LET at == game.loc[player]
        step == [i \in 1..Len(Directions) |->
                    <<at[1] + Directions[i][1], at[2] + Directions[i][2]>>]
    IN SelectSeq(step, LAMBDA m : m \in Cells /\ m \notin game.blocked)

forecast_move(game, move) ==
    [loc |-> [game.loc EXCEPT ![game.active] = move],
     blocked |-> game.blocked \cup {move},
     active |-> 3 - game.active]

is_loser(game, player) ==
    player = game.active /\ get_legal_moves(game, game.active) = <<>>

is_winner(game, player) ==
    player = 3 - game.active /\ get_legal_moves(game, game.active) = <<>>

\* ------------------------------------------------------------ heuristics
\* A heuristic returns [v |-> the float returned, q |-> the board queries it
\* made, in order].  kwargs is [has |-> 'weight' in kwargs, none |-> the
\* value is None, weight |-> the number given].
NoKwargs == [has |-> FALSE, none |-> FALSE, weight |-> 0]

KwWeight(kwargs, default) ==
    IF kwargs.has /\ ~kwargs.none THEN kwargs.weight ELSE default

\* a null heuristic with the two sentinels the wrong way round
null_score_swapped(game, player, kwargs) ==
    IF is_loser(game, player) THEN [v |-> F(WIN_MAGNITUDE), q |-> <<"is_loser">>]
    ELSE IF is_winner(game, player)
         THEN [v |-> F(-WIN_MAGNITUDE), q |-> <<"is_loser", "is_winner">>]
    ELSE [v |-> F(0), q |-> <<"is_loser", "is_winner">>]

null_score(game, player, kwargs) ==
    IF is_loser(game, player) THEN [v |-> F(-WIN_MAGNITUDE), q |-> <<"is_loser">>]
    ELSE IF is_winner(game, player)
         THEN [v |-> F(WIN_MAGNITUDE), q |-> <<"is_loser", "is_winner">>]
    ELSE [v |-> F(0), q |-> <<"is_loser", "is_winner">>]

open_move_score(game, player, kwargs) ==
    IF is_loser(game, player) THEN [v |-> F(-WIN_MAGNITUDE), q |-> <<"is_loser">>]
    ELSE IF is_winner(game, player)
         THEN [v |-> F(WIN_MAGNITUDE), q |-> <<"is_loser", "is_winner">>]
    ELSE [v |-> F(Len(get_legal_moves(game, player))),
          q |-> <<"is_loser", "is_winner", "get_legal_moves">>]

improved_om_score(game, player, kwargs) ==
    IF is_loser(game, player) THEN [v |-> F(-WIN_MAGNITUDE), q |-> <<"is_loser">>]
    ELSE IF is_winner(game, player)
         THEN [v |-> F(WIN_MAGNITUDE), q |-> <<"is_loser", "is_winner">>]
    ELSE LET own_moves == Len(get_legal_moves(game, player))
             opp_moves == Len(get_legal_moves(game, get_opponent(game, player)))
         IN [v |-> F(own_moves - opp_moves),
             q |-> <<"is_loser", "is_winner", "get_legal_moves",
                     "get_opponent", "get_legal_moves">>]

\* w, h = width / 2., height / 2.; (h - y)**2 + (w - x)**2, in quarters:
\* 4 * ((height/2 - y)^2 + (width/2 - x)^2) = (height - 2y)^2 + (width - 2x)^2
center_score(game, player, kwargs) ==
    IF is_loser(game, player) THEN [v |-> F(-WIN_MAGNITUDE), q |-> <<"is_loser">>]
    ELSE IF is_winner(game, player)
         THEN [v |-> F(WIN_MAGNITUDE), q |-> <<"is_loser", "is_winner">>]
    ELSE LET at == get_player_location(game, player)
             y == at[1]
             x == at[2]
         IN [v |-> (height - 2 * y) * (height - 2 * y)
                   + (width - 2 * x) * (width - 2 * x),
             q |-> <<"is_loser", "is_winner", "width", "height",
                     "get_player_location">>]

\* a weighted heuristic without the is_winner test
weighted_om_score_no_winner(game, player, kwargs) ==
    LET weight == KwWeight(kwargs, 2)
    IN IF is_loser(game, player) THEN [v |-> F(-WIN_MAGNITUDE), q |-> <<"is_loser">>]
       ELSE LET own_moves == Len(get_legal_moves(game, player))
                opp_moves == Len(get_legal_moves(game, get_opponent(game, player)))
            IN [v |-> F(own_moves - weight * opp_moves),
                q |-> <<"is_loser", "get_legal_moves",
                        "get_opponent", "get_legal_moves">>]

weighted_om_score(game, player, kwargs) ==
    LET weight == KwWeight(kwargs, 2)
    IN IF is_loser(game, player) THEN [v |-> F(-WIN_MAGNITUDE), q |-> <<"is_loser">>]
       ELSE IF is_winner(game, player)
            THEN [v |-> F(WIN_MAGNITUDE), q |-> <<"is_loser", "is_winner">>]
       ELSE LET own_moves == Len(get_legal_moves(game, player))
                opp_moves == Len(get_legal_moves(game, get_opponent(game, player)))
            IN [v |-> F(own_moves - weight * opp_moves),
                q |-> <<"is_loser", "is_winner", "get_legal_moves",
                        "get_opponent", "get_legal_moves">>]

\* The inner loop of farsighted_score for one first_move: the sum of
\* len(next_next_game.get_legal_moves(opponent)) over the second moves, where
\* next_next_game = game.forecast_move(second_move) is forecast from game.
farsighted_inner(game, next_game, opponent) ==
    LET seconds == get_legal_moves(next_game, opponent)
    IN SumSeq([j \in 1..Len(seconds) |->
                  Len(get_legal_moves(forecast_move(game, seconds[j]), opponent))])

farsighted_score(game, player, kwargs) ==
    LET weight == KwWeight(kwargs, 1)
    IN IF is_loser(game, player) THEN [v |-> F(-WIN_MAGNITUDE), q |-> <<"is_loser">>]
       ELSE IF is_winner(game, player)
            THEN [v |-> F(WIN_MAGNITUDE), q |-> <<"is_loser", "is_winner">>]
       ELSE LET opponent == get_opponent(game, player)
                firsts == get_legal_moves(game, player)
                own_score == SumSeq([i \in 1..Len(firsts) |->
                    Len(get_legal_moves(forecast_move(game, firsts[i]), player))])
                opp_score == SumSeq([i \in 1..Len(firsts) |->
                    farsighted_inner(game, forecast_move(game, firsts[i]), opponent)])
            IN [v |-> F(own_score - weight * opp_score),
                q |-> <<"is_loser", "is_winner", "get_opponent",
                        "get_legal_moves", "forecast_move">>]

Heuristics == {"null_score", "open_move_score", "improved_om_score",
               "center_score", "weighted_om_score", "farsighted_score"}

\* score_fn(game, player, **kwargs) for the heuristic named h
Score(h, game, player, kwargs) ==
    CASE h = "null_score" -> null_score(game, player, kwargs)
      [] h = "open_move_score" -> open_move_score(game, player, kwargs)
      [] h = "improved_om_score" -> improved_om_score(game, player, kwargs)
      [] h = "center_score" -> center_score(game, player, kwargs)
      [] h = "weighted_om_score" -> weighted_om_score(game, player, kwargs)
      [] h = "farsighted_score" -> farsighted_score(game, player, kwargs)
      [] h = "failing_score" -> null_score(game, player, kwargs)

\* score_fn is whatever callable the constructor was given.  failing_score
\* stands for one with a fault in it: it raises IndexError on every board
\* where the player stands in the first cell of the last row, and is
\* null_score elsewhere.
ScoreRaises(h, game, player) ==
    h = "failing_score" /\ get_player_location(game, player) = <<height - 1, 0>>

\* ------------------------------------------------------------ the timer
\* time_left is a callable; it is modelled by <<start, rate>>: its k-th call
\* (counted within one get_move) returns start - rate * (k - 1).
TimeAt(time_left, k) == time_left[1] - time_left[2] * (k - 1)

\* The running record of one get_move: n time_left() calls made so far and
\* the log of what the call has done, in order.
St0 == [n |-> 0, log |-> <<>>]

Ev(st, e) == [n |-> st.n, log |-> Append(st.log, e)]

\* self.time_left() on entering the frame named frame
Tick(self, st, frame) ==
    [n |-> st.n + 1,
     log |-> st.log \o <<frame, "time_left">>,
     t |-> TimeAt(self.time_left, st.n + 1)]

Ok(v, st) == [exc |-> "none", v |-> v, n |-> st.n, log |-> st.log]

Raise(e, st) == [exc |-> e, v |-> None, n |-> st.n, log |-> st.log]

\* the heuristic asked about the other player
SelfScore_of_opponent(self, game) ==
    Score(self.score, game, get_opponent(game, self.id), NoKwargs).v

\* self.score(game, self)
SelfScore(self, game) == Score(self.score, game, self.id, NoKwargs).v

\* return self.score(game, self), or the exception the heuristic raises
SelfScoreCall(self, game, st) ==
    IF ScoreRaises(self.score, game, self.id) THEN Raise("IndexError", Ev(st, "score"))
    ELSE Ok(SelfScore(self, game), Ev(st, "score"))

\* ------------------------------------------------------------ MinimaxPlayer
\* Every frame returns [exc, v, n, log]: the exception it raised ("none" when
\* it returned), the value it returned, and the running record.  A value an
\* operator uses more than once is bound by  CHOOSE ret \in {e(x) : x \in {d}} :
\* TRUE,  which is  LET x == d IN e(x)  with d evaluated once.
RECURSIVE MM_min_value(_, _, _, _), MM_max_value(_, _, _, _)
RECURSIVE MM_min_loop(_, _, _, _, _, _, _), MM_max_loop(_, _, _, _, _, _, _)
RECURSIVE MM_root_loop(_, _, _, _, _, _, _, _)

\* a terminal test that reads the clock and goes on whatever it says
MM_terminal_state_unchecked(self, game, depth, st) ==
    LET tk == Tick(self, st, "_terminal_state")
    IN IF depth = 0 THEN Ok(TRUE, tk)
       ELSE Ok(get_legal_moves(game, active_player(game)) = <<>>,
               Ev(tk, "get_legal_moves"))

MM_terminal_state(self, game, depth, st) ==
    LET tk == Tick(self, st, "_terminal_state")
    IN IF tk.t < self.TIMER_THRESHOLD THEN Raise("SearchTimeout", tk)
       ELSE IF depth = 0 THEN Ok(TRUE, tk)
       ELSE Ok(get_legal_moves(game, active_player(game)) = <<>>,
               Ev(tk, "get_legal_moves"))

\* the for loop of _min_value from its i-th move on
MM_min_loop(self, game, depth, moves, i, score, st) ==
    IF i > Len(moves) THEN Ok(score, st)
    ELSE CHOOSE ret \in
       {IF r.exc # "none" THEN r
        ELSE MM_min_loop(self, game, depth, moves, i + 1, Min(score, r.v), r) :
           r \in {MM_max_value(self, forecast_move(game, moves[i]), depth - 1,
                                Ev(st, "forecast_move"))}} : TRUE

MM_min_value(self, game, depth, st) ==
    LET tk == Tick(self, st, "_min_value")
    IN IF tk.t < self.TIMER_THRESHOLD THEN Raise("SearchTimeout", tk)
       ELSE CHOOSE ret \in
          {IF ts.exc # "none" THEN ts
           ELSE IF ts.v THEN SelfScoreCall(self, game, ts)
           ELSE MM_min_loop(self, game, depth, get_legal_moves(game, active_player(game)), 1,
                   inf, Ev(ts, "get_legal_moves")) :
              ts \in {MM_terminal_state(self, game, depth, tk)}} : TRUE

\* the for loop of _max_value from its i-th move on
MM_max_loop(self, game, depth, moves, i, score, st) ==
    IF i > Len(moves) THEN Ok(score, st)
    ELSE CHOOSE ret \in
       {IF r.exc # "none" THEN r
        ELSE MM_max_loop(self, game, depth, moves, i + 1, Max(score, r.v), r) :
           r \in {MM_min_value(self, forecast_move(game, moves[i]), depth - 1,
                                Ev(st, "forecast_move"))}} : TRUE

\* a max layer that asks the board for the moves before it reads the clock
MM_max_value_board_first(self, game, depth, st) ==
    LET tk == [n |-> st.n + 1,
               log |-> st.log \o <<"_max_value", "get_legal_moves", "time_left">>,
               t |-> TimeAt(self.time_left, st.n + 1)]
    IN IF tk.t < self.TIMER_THRESHOLD THEN Raise("SearchTimeout", tk)
       ELSE CHOOSE ret \in
          {IF ts.exc # "none" THEN ts
           ELSE IF ts.v THEN SelfScoreCall(self, game, ts)
           ELSE MM_max_loop(self, game, depth, get_legal_moves(game, active_player(game)), 1,
                   -inf, ts) :
              ts \in {MM_terminal_state(self, game, depth, tk)}} : TRUE

MM_max_value(self, game, depth, st) ==
    LET tk == Tick(self, st, "_max_value")
    IN IF tk.t < self.TIMER_THRESHOLD THEN Raise("SearchTimeout", tk)
       ELSE CHOOSE ret \in
          {IF ts.exc # "none" THEN ts
           ELSE IF ts.v THEN SelfScoreCall(self, game, ts)
           ELSE MM_max_loop(self, game, depth, get_legal_moves(game, active_player(game)), 1,
                   -inf, Ev(ts, "get_legal_moves")) :
              ts \in {MM_terminal_state(self, game, depth, tk)}} : TRUE

\* a root loop that answers a timeout with the best move found so far
RECURSIVE MM_root_loop_keeps_best(_, _, _, _, _, _, _, _)
MM_root_loop_keeps_best(self, game, depth, moves, i, best_score, best_move, st) ==
    IF i > Len(moves) THEN Ok(best_move, st)
    ELSE CHOOSE ret \in
       {IF r.exc # "none"
        THEN (IF best_move = None THEN r ELSE Ok(best_move, r))
        ELSE IF r.v > best_score
             THEN MM_root_loop_keeps_best(self, game, depth, moves, i + 1, r.v, moves[i], r)
             ELSE MM_root_loop_keeps_best(self, game, depth, moves, i + 1,
                               best_score, best_move, r) :
           r \in {MM_min_value(self, forecast_move(game, moves[i]), depth - 1,
                               Ev(st, "forecast_move"))}} : TRUE

\* the for loop of minimax from its i-th move on
MM_root_loop(self, game, depth, moves, i, best_score, best_move, st) ==
    IF i > Len(moves) THEN Ok(best_move, st)
    ELSE CHOOSE ret \in
       {IF r.exc # "none" THEN r
        ELSE IF r.v > best_score
             THEN MM_root_loop(self, game, depth, moves, i + 1, r.v, moves[i], r)
             ELSE MM_root_loop(self, game, depth, moves, i + 1,
                               best_score, best_move, r) :
           r \in {MM_min_value(self, forecast_move(game, moves[i]), depth - 1,
                               Ev(st, "forecast_move"))}} : TRUE

MM_minimax(self, game, depth, st) ==
    LET tk == Tick(self, st, "minimax")
    IN IF tk.t < self.TIMER_THRESHOLD THEN Raise("SearchTimeout", tk)
       ELSE MM_root_loop(self, game, depth,
                         get_legal_moves(game, active_player(game)), 1,
                         -inf, None, Ev(tk, "get_legal_moves"))

\* a get_move without the except clause
MM_get_move_uncaught(self, game) == MM_minimax(self, game, self.search_depth, St0)

\* a get_move whose except clause catches every exception
MM_get_move_catches_all(self, game) ==
    CHOOSE ret \in
       {IF r.exc # "none" THEN Ok(NO_MOVE, r) ELSE r :
           r \in {MM_minimax(self, game, self.search_depth, St0)}} : TRUE

\* MinimaxPlayer.get_move, self.time_left already assigned
MM_get_move(self, game) ==
    CHOOSE ret \in
       {IF r.exc = "SearchTimeout" THEN Ok(NO_MOVE, r) ELSE r :
           r \in {MM_minimax(self, game, self.search_depth, St0)}} : TRUE

\* ------------------------------------------------------------ AlphaBetaPlayer
RECURSIVE AB_min_value(_, _, _, _, _, _), AB_max_value(_, _, _, _, _, _)
RECURSIVE AB_min_loop(_, _, _, _, _, _, _, _, _), AB_max_loop(_, _, _, _, _, _, _, _, _)
RECURSIVE AB_root_loop(_, _, _, _, _, _, _, _, _, _)

AB_terminal_state(self, game, depth, st) ==
    LET tk == Tick(self, st, "_terminal_state")
    IN IF tk.t < self.TIMER_THRESHOLD THEN Raise("SearchTimeout", tk)
       ELSE IF depth = 0 THEN Ok(TRUE, tk)
       ELSE Ok(get_legal_moves(game, active_player(game)) = <<>>,
               Ev(tk, "get_legal_moves"))

\* a min layer that cuts against beta instead of alpha
RECURSIVE AB_min_loop_cut_on_beta(_, _, _, _, _, _, _, _, _)
AB_min_loop_cut_on_beta(self, game, depth, moves, i, score, alpha, beta, st) ==
    IF i > Len(moves) THEN Ok(score, st)
    ELSE CHOOSE ret \in
       {IF r.exc # "none" THEN r
        ELSE LET score1 == Min(score, r.v)
             IN IF score1 <= beta THEN Ok(score1, r)
                ELSE AB_min_loop_cut_on_beta(self, game, depth, moves, i + 1, score1,
                                 alpha, Min(beta, score1), r) :
           r \in {AB_max_value(self, forecast_move(game, moves[i]), depth - 1,
                                alpha, beta, Ev(st, "forecast_move"))}} : TRUE

\* the for loop of _min_value from its i-th move on
AB_min_loop(self, game, depth, moves, i, score, alpha, beta, st) ==
    IF i > Len(moves) THEN Ok(score, st)
    ELSE CHOOSE ret \in
       {IF r.exc # "none" THEN r
        ELSE LET score1 == Min(score, r.v)
             IN IF score1 <= alpha THEN Ok(score1, r)
                ELSE AB_min_loop(self, game, depth, moves, i + 1, score1,
                                 alpha, Min(beta, score1), r) :
           r \in {AB_max_value(self, forecast_move(game, moves[i]), depth - 1,
                                alpha, beta, Ev(st, "forecast_move"))}} : TRUE

AB_min_value(self, game, depth, alpha, beta, st) ==
    LET tk == Tick(self, st, "_min_value")
    IN IF tk.t < self.TIMER_THRESHOLD THEN Raise("SearchTimeout", tk)
       ELSE CHOOSE ret \in
          {IF ts.exc # "none" THEN ts
           ELSE IF ts.v THEN SelfScoreCall(self, game, ts)
           ELSE AB_min_loop(self, game, depth, get_legal_moves(game, active_player(game)), 1,
                   inf, alpha, beta, Ev(ts, "get_legal_moves")) :
              ts \in {AB_terminal_state(self, game, depth, tk)}} : TRUE

\* the for loop of _max_value from its i-th move on
AB_max_loop(self, game, depth, moves, i, score, alpha, beta, st) ==
    IF i > Len(moves) THEN Ok(score, st)
    ELSE CHOOSE ret \in
       {IF r.exc # "none" THEN r
        ELSE LET score1 == Max(score, r.v)
             IN IF score1 >= beta THEN Ok(score1, r)
                ELSE AB_max_loop(self, game, depth, moves, i + 1, score1,
                                 Max(alpha, score1), beta, r) :
           r \in {AB_min_value(self, forecast_move(game, moves[i]), depth - 1,
                                alpha, beta, Ev(st, "forecast_move"))}} : TRUE

\* the max layer enumerates game.get_legal_moves(self)
AB_max_value(self, game, depth, alpha, beta, st) ==
    LET tk == Tick(self, st, "_max_value")
    IN IF tk.t < self.TIMER_THRESHOLD THEN Raise("SearchTimeout", tk)
       ELSE CHOOSE ret \in
          {IF ts.exc # "none" THEN ts
           ELSE IF ts.v THEN SelfScoreCall(self, game, ts)
           ELSE AB_max_loop(self, game, depth, get_legal_moves(game, self.id), 1,
                   -inf, alpha, beta, Ev(ts, "get_legal_moves")) :
              ts \in {AB_terminal_state(self, game, depth, tk)}} : TRUE

\* a root loop that lets a later move of equal value replace the best one
RECURSIVE AB_root_loop_takes_ties(_, _, _, _, _, _, _, _, _, _)
AB_root_loop_takes_ties(self, game, depth, moves, i, best_score, best_move, alpha, beta, st) ==
    IF i > Len(moves) THEN Ok(best_move, st)
    ELSE CHOOSE ret \in
       {IF r.exc # "none" THEN r
        ELSE LET better == r.v >= best_score
                 best_score1 == IF better THEN r.v ELSE best_score
                 best_move1 == IF better THEN moves[i] ELSE best_move
             IN IF best_score1 >= beta THEN Ok(best_move1, r)
                ELSE AB_root_loop_takes_ties(self, game, depth, moves, i + 1,
                                  best_score1, best_move1,
                                  Max(alpha, best_score1), beta, r) :
           r \in {AB_min_value(self, forecast_move(game, moves[i]), depth - 1,
                               alpha, beta, Ev(st, "forecast_move"))}} : TRUE

\* the for loop of alphabeta from its i-th move on
AB_root_loop(self, game, depth, moves, i, best_score, best_move, alpha, beta, st) ==
    IF i > Len(moves) THEN Ok(best_move, st)
    ELSE CHOOSE ret \in
       {IF r.exc # "none" THEN r
        ELSE LET better == r.v > best_score
                 best_score1 == IF better THEN r.v ELSE best_score
                 best_move1 == IF better THEN moves[i] ELSE best_move
             IN IF best_score1 >= beta THEN Ok(best_move1, r)
                ELSE AB_root_loop(self, game, depth, moves, i + 1,
                                  best_score1, best_move1,
                                  Max(alpha, best_score1), beta, r) :
           r \in {AB_min_value(self, forecast_move(game, moves[i]), depth - 1,
                               alpha, beta, Ev(st, "forecast_move"))}} : TRUE

AB_alphabeta(self, game, depth, alpha, beta, st) ==
    LET tk == Tick(self, st, "alphabeta")
    IN IF tk.t < self.TIMER_THRESHOLD THEN Raise("SearchTimeout", tk)
       ELSE AB_root_loop(self, game, depth,
                         get_legal_moves(game, active_player(game)), 1,
                         -inf, None, alpha, beta, Ev(tk, "get_legal_moves"))

\* AlphaBetaPlayer.get_move, self.time_left already assigned
AB_get_move(self, game) ==
    CHOOSE ret \in
       {IF r.exc = "SearchTimeout" THEN Ok(NO_MOVE, r) ELSE r :
           r \in {AB_alphabeta(self, game, self.search_depth, -inf, inf, St0)}} : TRUE

\* ------------------------------------------------------------ GreedyPlayer
\* Python's order on the tuples (score, (row, col)) that max() compares
TupleLess(a, b) ==
    \/ a[1] < b[1]
    \/ a[1] = b[1] /\ a[2][1] < b[2][1]
    \/ a[1] = b[1] /\ a[2][1] = b[2][1] /\ a[2][2] < b[2][2]

RECURSIVE PyMax(_, _, _)
\* max(list): the first element no later element exceeds
PyMax(list, i, best) ==
    IF i > Len(list) THEN best
    ELSE PyMax(list, i + 1, IF TupleLess(best, list[i]) THEN list[i] ELSE best)

GR_get_move(self, game) ==
    LET legal_moves == get_legal_moves(game, active_player(game))
        st == Ev(St0, "get_legal_moves")
    IN IF legal_moves = <<>> THEN Ok(NO_MOVE, st)
       ELSE CHOOSE ret \in
              {Ok(PyMax(scored, 2, scored[1])[2], Ev(st, "score")) :
                  scored \in {[i \in 1..Len(legal_moves) |->
                      <<SelfScore(self, forecast_move(game, legal_moves[i])),
                        legal_moves[i]>>]}} : TRUE

\* ------------------------------------------------------------ RandomPlayer
\* legal_moves[randint(0, len(legal_moves) - 1)], randint drawing r
RA_get_move(game, r) ==
    LET legal_moves == get_legal_moves(game, active_player(game))
        st == Ev(St0, "get_legal_moves")
    IN IF legal_moves = <<>> THEN Ok(NO_MOVE, st)
       ELSE Ok(legal_moves[r + 1], st)

\* ------------------------------------------------------------ HumanPlayer
\* A line typed at the prompt is a sequence of characters.
Digits == <<"0", "1", "2", "9">>

DigitVal(c) == CASE c = "0" -> 0 [] c = "1" -> 1 [] c = "2" -> 2 [] c = "9" -> 9

IsDigit(c) == \E k \in 1..Len(Digits) : Digits[k] = c

Alphabet == {"0", "1", "2", "9", "-", "+", " ", "a"}

Lines == UNION {[1..k -> Alphabet] : k \in 0..MaxLine}

RECURSIVE Strip(_)
Strip(s) ==
    IF s = <<>> THEN s
    ELSE IF Head(s) = " " THEN Strip(Tail(s))
    ELSE IF s[Len(s)] = " " THEN Strip(SubSeq(s, 1, Len(s) - 1))
    ELSE s

RECURSIVE Decimal(_, _)
Decimal(s, acc) ==
    IF s = <<>> THEN acc ELSE Decimal(Tail(s), 10 * acc + DigitVal(Head(s)))

\* an int() that drops the sign
PyInt_unsigned(line) ==
    LET s == Strip(line)
        signed == s # <<>> /\ Head(s) \in {"-", "+"}
        body == IF signed THEN Tail(s) ELSE s
    IN IF body = <<>> \/ \E k \in 1..Len(body) : ~IsDigit(body[k])
       THEN [ok |-> FALSE, val |-> 0]
       ELSE [ok |-> TRUE, val |-> Decimal(body, 0)]

\* int(line): [ok |-> FALSE] stands for ValueError
PyInt(line) ==
    LET s == Strip(line)
        signed == s # <<>> /\ Head(s) \in {"-", "+"}
        body == IF signed THEN Tail(s) ELSE s
    IN IF body = <<>> \/ \E k \in 1..Len(body) : ~IsDigit(body[k])
       THEN [ok |-> FALSE, val |-> 0]
       ELSE [ok |-> TRUE,
             val |-> IF signed /\ Head(s) = "-" THEN -Decimal(body, 0)
                     ELSE Decimal(body, 0)]

\* One pass of the while loop of HumanPlayer.get_move on the line typed:
\* [valid_choice, index]
HU_prompt(legal_moves, line) ==
    LET p == PyInt(line)
    IN IF ~p.ok THEN [valid_choice |-> FALSE, index |-> -1]
       ELSE [valid_choice |-> 0 <= p.val /\ p.val < Len(legal_moves),
             index |-> p.val]

\* What a line means to a reader who knows n moves are on offer: the index
\* i in 0..n-1 when the line spells the integer i (blanks around it, a sign,
\* leading zeros allowed), and -1 otherwise.
RECURSIVE Repeat(_, _)
Repeat(c, k) == IF k = 0 THEN <<>> ELSE <<c>> \o Repeat(c, k - 1)

Blanks == {Repeat(" ", k) : k \in 0..MaxLine}

Zeros == {Repeat("0", k) : k \in 0..MaxLine}

Spellings ==
    [i \in 0..9 |->
        {a \o sgn \o z \o <<Digits[d]>> \o b :
            a \in Blanks, b \in Blanks, z \in Zeros,
            sgn \in {<<>>, <<"+">>} \cup (IF i = 0 THEN {<<"-">>} ELSE {}),
            d \in {k \in 1..Len(Digits) : DigitVal(Digits[k]) = i}}]

Meant(line, n) ==
    IF \E i \in 0..(n - 1) : line \in Spellings[i]
    THEN CHOOSE i \in 0..(n - 1) : line \in Spellings[i]
    ELSE -1

\* ------------------------------------------------------------ the program
\* agent: the player object under study (its class and the fields
\*        IsolationPlayer.__init__ sets); it plays as player 1.
\* game:  the board of the game in progress.
\* last:  the call made at this position and what it returned; heard is a
\*        history of the lines read so far, each kept as what it meant (the
\*        index it names, or -1): the program itself stores none of it.
\* pc:    "input" while HumanPlayer.get_move waits for a line, else "idle".
\* prev:  a history of the agent object: how its previous get_move ended,
\*        "none" before its first call, "timeout" when the search ran out of
\*        time, else "move"; the program itself stores none of it.
VARIABLES game, agent, last, pc, prev

vars == <<game, agent, last, pc, prev>>

TIMEOUT == 10

DEPTH == 3

Kinds == {"Random", "Greedy", "Human", "Minimax", "AlphaBeta"}

\* the clocks a caller may hand to get_move: frozen (rate 0) or losing one
\* unit per query (rate 1), started around the threshold
Timers == {<<s, r>> : s \in (TIMEOUT - 1)..(TIMEOUT + MaxTicks), r \in {0, 1}}

\* a clock that never drops below the threshold
Unlimited(time_left) == time_left[2] = 0 /\ time_left[1] >= TIMEOUT

Weights == [has : {FALSE}, none : {FALSE}, weight : {0}]
           \cup [has : {TRUE}, none : {TRUE}, weight : {0}]
           \cup [has : {TRUE}, none : {FALSE}, weight : (-1)..MaxWeight]

NoCall == [op |-> "none", exc |-> "none", v |-> None, n |-> 0, log |-> <<>>,
           player |-> 0, kwargs |-> NoKwargs, heard |-> <<>>]

\* the record of a call of op that ended as r
Called(op, r, player, kwargs) ==
    [op |-> op, exc |-> r.exc, v |-> r.v, n |-> r.n, log |-> r.log,
     player |-> player, kwargs |-> kwargs, heard |-> <<>>]

\* Board(player1, player2); game.apply_move((0, 0)); game.apply_move((6, 6)):
\* the two players start in opposite corners, player 1 to move
StartBoard ==
    [loc |-> << <<0, 0>>, <<height - 1, width - 1>> >>,
     blocked |-> {<<0, 0>>, <<height - 1, width - 1>>},
     active |-> 1]

IsolationPlayer(kind, search_depth, score_fn, timeout) ==
    [kind |-> kind, search_depth |-> search_depth, score |-> score_fn,
     time_left |-> None, TIMER_THRESHOLD |-> timeout]

\* the agents a game is set up with: the search agents at every depth and
\* with every heuristic, the greedy agent with every heuristic
Agents ==
    {IsolationPlayer(k, d, h, TIMEOUT) :
        k \in {"Minimax", "AlphaBeta"}, d \in 1..MaxDepth, h \in Heuristics}
    \cup {IsolationPlayer("Greedy", DEPTH, h, TIMEOUT) : h \in Heuristics}
    \cup {IsolationPlayer(k, DEPTH, "null_score", TIMEOUT) : k \in {"Human", "Random"}}

Init ==
    /\ game = StartBoard
    /\ agent \in Agents
    /\ last = NoCall
    /\ pc = "idle"
    /\ prev = "none"

\* a get_move that stores the time query only when none is stored yet
Self_keeps_clock(a, g, time_left) ==
    [kind |-> a.kind, search_depth |-> a.search_depth, score |-> a.score,
     time_left |-> IF a.time_left = None THEN time_left ELSE a.time_left,
     TIMER_THRESHOLD |-> a.TIMER_THRESHOLD,
     id |-> active_player(g)]

\* self inside get_move(game, time_left), after self.time_left = time_left:
\* the agent, which is the board's active player
Self(a, g, time_left) ==
    [kind |-> a.kind, search_depth |-> a.search_depth, score |-> a.score,
     time_left |-> time_left, TIMER_THRESHOLD |-> a.TIMER_THRESHOLD,
     id |-> active_player(g)]

\* how the call recorded in c, made by agent a, ended; p when c is no call
Outcome(a, c, p) ==
    IF c.op # "get_move" THEN p
    ELSE IF a.kind \in {"Minimax", "AlphaBeta"}
            /\ TimeAt(a.time_left, c.n) < a.TIMER_THRESHOLD THEN "timeout"
    ELSE "move"

LegalNow == get_legal_moves(game, active_player(game))

IsLegal(g, move) ==
    \E i \in 1..Len(get_legal_moves(g, active_player(g))) :
        get_legal_moves(g, active_player(g))[i] = move

\* the agent is asked for a move when it is its turn, once per position
Asked == pc = "idle" /\ last.op = "none" /\ active_player(game) = 1

RandomGetMove ==
    /\ Asked /\ agent.kind = "Random"
    /\ \E r \in 0..Max(Len(LegalNow) - 1, 0) :
          last' = Called("get_move", RA_get_move(game, r), 1, NoKwargs)
    /\ UNCHANGED <<game, agent, pc, prev>>

GreedyGetMove ==
    /\ Asked /\ agent.kind = "Greedy"
    /\ \E time_left \in Timers :
          \E r \in {GR_get_move(Self(agent, game, time_left), game)} :
             /\ agent' = [agent EXCEPT !.time_left = time_left]
             /\ last' = Called("get_move", r, 1, NoKwargs)
    /\ UNCHANGED <<game, pc, prev>>

MinimaxGetMove ==
    /\ Asked /\ agent.kind = "Minimax"
    /\ \E time_left \in Timers :
          \E r \in {MM_get_move(Self(agent, game, time_left), game)} :
             /\ agent' = [agent EXCEPT !.time_left = time_left]
             /\ last' = Called("get_move", r, 1, NoKwargs)
    /\ UNCHANGED <<game, pc, prev>>

AlphaBetaGetMove ==
    /\ Asked /\ agent.kind = "AlphaBeta"
    /\ \E time_left \in Timers :
          \E r \in {AB_get_move(Self(agent, game, time_left), game)} :
             /\ agent' = [agent EXCEPT !.time_left = time_left]
             /\ last' = Called("get_move", r, 1, NoKwargs)
    /\ UNCHANGED <<game, pc, prev>>

\* HumanPlayer.get_move up to the first prompt
HumanGetMove ==
    /\ Asked /\ agent.kind = "Human"
    /\ \E time_left \in Timers :
          agent' = [agent EXCEPT !.time_left = time_left]
    /\ LET st == Ev(St0, "get_legal_moves")
       IN IF LegalNow = <<>>
          THEN /\ last' = Called("get_move", Ok(NO_MOVE, st), 1, NoKwargs)
               /\ pc' = "idle"
          ELSE /\ last' = Called("prompt", Ok(None, Ev(st, "to_string")),
                                 1, NoKwargs)
               /\ pc' = "input"
    /\ UNCHANGED <<game, prev>>

\* one pass of the while loop: time_left() is printed, a line is read
HumanInput ==
    /\ pc = "input"
    /\ \E line \in Lines :
          LET p == HU_prompt(LegalNow, line)
              st == [n |-> last.n + 1,
                     log |-> last.log \o <<"time_left", "input">>]
              heard == Append(last.heard, Meant(line, Len(LegalNow)))
          IN IF p.valid_choice
             THEN /\ last' = [Called("get_move", Ok(LegalNow[p.index + 1], st),
                                     1, NoKwargs) EXCEPT !.heard = heard]
                  /\ pc' = "idle"
             ELSE /\ last.n < MaxReads
                  /\ last' = [Called("prompt", Ok(None, st), 1, NoKwargs)
                                 EXCEPT !.heard = heard]
                  /\ pc' = "input"
    /\ UNCHANGED <<game, agent, prev>>

\* Board.play: the move the agent returned is applied when it is legal
PlayMove ==
    /\ pc = "idle" /\ last.op = "get_move" /\ last.exc = "none"
    /\ IsLegal(game, last.v)
    /\ game' = forecast_move(game, last.v)
    /\ last' = NoCall
    /\ prev' = Outcome(agent, last, prev)
    /\ UNCHANGED <<agent, pc>>

\* Board.play: the other player, whoever it is, makes one of its legal moves
OpponentMove ==
    /\ pc = "idle" /\ active_player(game) = 2
    /\ \E i \in 1..Len(LegalNow) : game' = forecast_move(game, LegalNow[i])
    /\ UNCHANGED <<agent, last, pc, prev>>

\* the game is over (a player could not move, or the agent returned no legal
\* move and forfeits); the same agent object is set up for the next game
NewGame ==
    /\ pc = "idle"
    /\ \/ LegalNow = <<>>
       \/ last.op = "get_move" /\ ~(last.exc = "none" /\ IsLegal(game, last.v))
    /\ game' = StartBoard
    /\ last' = NoCall
    /\ prev' = Outcome(agent, last, prev)
    /\ UNCHANGED <<agent, pc>>

Next ==
    \/ RandomGetMove
    \/ GreedyGetMove
    \/ HumanGetMove
    \/ HumanInput
    \/ MinimaxGetMove
    \/ AlphaBetaGetMove
    \/ PlayMove
    \/ OpponentMove
    \/ NewGame

Spec == Init /\ [][Next]_vars

\* ------------------------------------------------------------ the heuristics
\* The heuristics called directly on every position of a game:
\* game.apply_move(move) by either player, score_fn(game, player, **kwargs).
ScoreInit ==
    /\ game = StartBoard
    /\ agent \in {IsolationPlayer("Greedy", DEPTH, h, TIMEOUT) : h \in Heuristics}
    /\ last = NoCall
    /\ pc = "idle"
    /\ prev = "none"

ApplyMove ==
    /\ \E i \in 1..Len(LegalNow) : game' = forecast_move(game, LegalNow[i])
    /\ last' = NoCall
    /\ UNCHANGED <<agent, pc, prev>>

CallScore ==
    /\ last.op = "none"
    /\ \E player \in 1..2, kwargs \in Weights :
          \E r \in {Score(agent.score, game, player, kwargs)} :
             last' = [op |-> "score", exc |-> "none", v |-> r.v, n |-> 0,
                      log |-> r.q, player |-> player, kwargs |-> kwargs,
                      heard |-> <<>>]
    /\ UNCHANGED <<game, agent, pc, prev>>

ScoreNext == ApplyMove \/ CallScore

ScoreSpec == ScoreInit /\ [][ScoreNext]_vars

\* ------------------------------------------------------------ a failing heuristic
\* The search agents constructed with a heuristic that can raise, playing
\* as before.
FaultInit ==
    /\ game = StartBoard
    /\ agent \in {IsolationPlayer(k, d, "failing_score", TIMEOUT) :
                     k \in {"Minimax", "AlphaBeta"}, d \in 1..MaxDepth}
    /\ last = NoCall
    /\ pc = "idle"
    /\ prev = "none"

FaultNext ==
    \/ MinimaxGetMove
    \/ AlphaBetaGetMove
    \/ PlayMove
    \/ OpponentMove
    \/ NewGame

FaultSpec == FaultInit /\ [][FaultNext]_vars

\* ------------------------------------------------------------ yardsticks
\* What the properties below measure the program against.
Range(s) == {s[k] : k \in 1..Len(s)}

SetMax(S) == CHOOSE x \in S : \A y \in S : y <= x

SetMin(S) == CHOOSE x \in S : \A y \in S : x <= y

\* the first index at which the sequence s of numbers takes its maximum
FirstArgmax(s) ==
    CHOOSE i \in 1..Len(s) :
        /\ \A j \in 1..Len(s) : s[j] <= s[i]
        /\ \A j \in 1..(i - 1) : s[j] < s[i]

\* the depth-limited minimax value of board g for player me under heuristic h:
\* the heuristic at depth 0 or when the player to move has no legal move,
\* else the maximum (me to move) or the minimum (the opponent to move) of the
\* successors' values at depth d - 1
RECURSIVE Value(_, _, _, _)
Value(h, me, g, d) ==
    LET moves == get_legal_moves(g, active_player(g))
        below == {Value(h, me, forecast_move(g, m), d - 1) : m \in Range(moves)}
    IN IF d = 0 \/ moves = <<>> THEN Score(h, g, me, NoKwargs).v
       ELSE IF active_player(g) = me THEN SetMax(below)
       ELSE SetMin(below)

\* the value of the root move m for the agent at the current position
RootValue(m, d) == Value(agent.score, active_player(game), forecast_move(game, m), d - 1)

Searching == agent.kind \in {"Minimax", "AlphaBeta"} /\ last.op = "get_move"

\* the k-th value the clock gave during the call recorded in last
Consulted(k) == TimeAt(agent.time_left, k)

\* ------------------------------------------------------------ C1
\* C1: whatever the agent, get_move returns either the sentinel (-1, -1) or
\* a move that is legal for the active player, and exactly (-1, -1) when
\* there is no legal move.
C1_SentinelOrLegal ==
    last.op = "get_move" =>
        /\ last.exc = "none"
        /\ last.v = NO_MOVE \/ IsLegal(game, last.v)
        /\ LegalNow = <<>> => last.v = NO_MOVE

\* ------------------------------------------------------------ C2
\* C2: on the same board, with the same depth and heuristic and a clock that
\* never drops below the threshold, the move AlphaBetaPlayer returns and the
\* move MinimaxPlayer returns have the same depth-limited minimax value.
C2_SameRootValue ==
    (Searching /\ agent.kind = "AlphaBeta" /\ Unlimited(agent.time_left)
       /\ LegalNow # <<>>) =>
        LET mm == MM_get_move(Self(agent, game, agent.time_left), game)
        IN /\ mm.exc = "none" /\ last.exc = "none"
           /\ IsLegal(game, mm.v) /\ IsLegal(game, last.v)
           /\ RootValue(last.v, agent.search_depth) = RootValue(mm.v, agent.search_depth)

\* alpha-beta cut part of the tree that minimax walked, two plies deep
C2_Pruned ==
    /\ Searching /\ agent.kind = "AlphaBeta" /\ Unlimited(agent.time_left)
    /\ agent.search_depth >= 2 /\ IsLegal(game, last.v)
    /\ Len(last.log) < Len(MM_get_move(Self(agent, game, agent.time_left), game).log)

\* ------------------------------------------------------------ C3
\* C3: when the threshold is above every value the clock gives, get_move of
\* either search agent returns (-1, -1) and lets no exception out.
C3_SentinelWhenNoTime ==
    (Searching /\ Consulted(1) < agent.TIMER_THRESHOLD) =>
        last.exc = "none" /\ last.v = NO_MOVE

\* such a call on a board where the agent did have moves
C3_NoTimeWithMoves ==
    /\ Searching /\ Consulted(1) < agent.TIMER_THRESHOLD
    /\ LegalNow # <<>> /\ last.v = NO_MOVE

\* ------------------------------------------------------------ C4
\* C4, as the code has it: a search frame (root, min layer, max layer,
\* terminal test) that reads a clock value strictly below the threshold is
\* aborted there: nothing follows that reading, and get_move returns
\* (-1, -1).  A reading equal to the threshold does not abort.
C4_AbortsBelowThreshold ==
    Searching =>
        /\ \A k \in 1..last.n :
              Consulted(k) < agent.TIMER_THRESHOLD =>
                  /\ k = last.n
                  /\ last.log[Len(last.log)] = "time_left"
                  /\ last.v = NO_MOVE
        /\ Consulted(last.n) >= agent.TIMER_THRESHOLD =>
              last.log[Len(last.log)] # "time_left"

\* C4, as stated: a reading at or below the threshold aborts the search.
C4_AbortsAtOrBelowThreshold ==
    Searching =>
        \A k \in 1..last.n :
            Consulted(k) <= agent.TIMER_THRESHOLD =>
                /\ k = last.n
                /\ last.log[Len(last.log)] = "time_left"
                /\ last.v = NO_MOVE

\* a terminal test aborted below the threshold after an earlier frame had
\* read exactly the threshold and gone on
C4_AbortInTerminalTest ==
    /\ Searching /\ last.n >= 2
    /\ Consulted(last.n) < agent.TIMER_THRESHOLD
    /\ \E k \in 1..(last.n - 1) : Consulted(k) = agent.TIMER_THRESHOLD
    /\ last.log[Len(last.log) - 1] = "_terminal_state"
    /\ last.v = NO_MOVE

\* ------------------------------------------------------------ C5
\* the heuristic's score of each legal move's successor, in enumeration order
GreedyScores ==
    [k \in 1..Len(LegalNow) |->
        Score(agent.score, forecast_move(game, LegalNow[k]), active_player(game), NoKwargs).v]

\* C5: GreedyPlayer returns the legal move whose successor scores highest,
\* and among equal scores the one enumerated first.
C5_GreedyFirstArgmax ==
    (agent.kind = "Greedy" /\ last.op = "get_move" /\ LegalNow # <<>>) =>
        last.v = LegalNow[FirstArgmax(GreedyScores)]

\* ------------------------------------------------------------ C6
\* the value of each root move, in enumeration order, at depth d
RootValues(d) == [k \in 1..Len(LegalNow) |-> RootValue(LegalNow[k], d)]

\* C6: with a clock that never drops below the threshold, MinimaxPlayer
\* returns the first enumerated root move whose depth-limited minimax value
\* is the greatest, the value being the heuristic seen from the root agent
\* at depth 0 or where the player to move has no move, and else the maximum
\* (agent to move) or minimum (opponent to move) over the successors.
C6_FirstArgmaxRootMove ==
    (Searching /\ agent.kind = "Minimax" /\ Unlimited(agent.time_left)
       /\ LegalNow # <<>>) =>
        /\ last.exc = "none"
        /\ last.v = LegalNow[FirstArgmax(RootValues(agent.search_depth))]

\* a search at least two plies deep that passed over the first root move and
\* kept the earlier of two root moves of the greatest value
C6_TieKeptFirst ==
    /\ Searching /\ agent.kind = "Minimax" /\ Unlimited(agent.time_left)
    /\ agent.search_depth >= 2 /\ IsLegal(game, last.v) /\ last.v # LegalNow[1]
    /\ \E k \in 1..Len(LegalNow) :
          /\ LegalNow[k] # last.v
          /\ RootValue(LegalNow[k], agent.search_depth)
                = RootValue(last.v, agent.search_depth)

\* ------------------------------------------------------------ C7
\* the player to move at g can force a win of the game
RECURSIVE CanWin(_)
CanWin(g) ==
    \E m \in Range(get_legal_moves(g, active_player(g))) : ~CanWin(forecast_move(g, m))

\* the value MinimaxPlayer's search at depth d gives the move it returns at
\* the current position
Achieved(d) ==
    LET self == [Self(agent, game, agent.time_left) EXCEPT !.search_depth = d]
        move == MM_get_move(self, game).v
    IN MM_min_value(self, forecast_move(game, move), d - 1, St0).v

\* C7: with the null heuristic and a clock that never drops below the
\* threshold, the value MinimaxPlayer achieves at depth d + 1 is at least the
\* value it achieves at depth d, for a player who is not already bound to
\* lose.
C7_DeeperNeverWorse ==
    (Searching /\ agent.kind = "Minimax" /\ agent.score = "null_score"
       /\ Unlimited(agent.time_left) /\ CanWin(game)) =>
        Achieved(agent.search_depth + 1) >= Achieved(agent.search_depth)

\* one more ply turned a draw-looking position into a seen win
C7_DeeperSawWin ==
    /\ Searching /\ agent.kind = "Minimax" /\ agent.score = "null_score"
    /\ Unlimited(agent.time_left) /\ CanWin(game)
    /\ Achieved(agent.search_depth) = F(0)
    /\ Achieved(agent.search_depth + 1) = F(WIN_MAGNITUDE)

\* ------------------------------------------------------------ C8
\* C8: every heuristic returns exactly -1000000 when is_loser(player) holds
\* and exactly +1000000 when is_winner(player) holds, on every board and
\* whatever the weight option, having asked the board nothing but is_loser
\* and is_winner.
C8_TerminalSentinels ==
    last.op = "score" =>
        /\ is_loser(game, last.player) =>
              /\ last.v = F(-WIN_MAGNITUDE)
              /\ Range(last.log) \subseteq {"is_loser", "is_winner"}
        /\ is_winner(game, last.player) =>
              /\ last.v = F(WIN_MAGNITUDE)
              /\ Range(last.log) \subseteq {"is_loser", "is_winner"}

\* a weighted heuristic scoring a won board with a weight given
C8_WeightedOnWonBoard ==
    /\ last.op = "score" /\ is_winner(game, last.player)
    /\ agent.score \in {"weighted_om_score", "farsighted_score"}
    /\ last.kwargs.has /\ ~last.kwargs.none /\ last.kwargs.weight > 0
    /\ last.v = F(WIN_MAGNITUDE)

\* ------------------------------------------------------------ C9
\* the sum of f over the elements of the sequence s
RECURSIVE SumOver(_, _)
SumOver(f(_), s) == IF s = <<>> THEN 0 ELSE f(Head(s)) + SumOver(f, Tail(s))

\* the player's legal-move count on the board reached by m, summed over the
\* player's first moves m
S_own(g, player) ==
    LET count(m) == Len(get_legal_moves(forecast_move(g, m), player))
    IN SumOver(count, get_legal_moves(g, player))

\* the opponent's legal-move count on the board reached by r after m, summed
\* over the first moves m and the opponent's replies r on the board after m
S_opp(g, player) ==
    LET opponent == get_opponent(g, player)
        replies(m) ==
            LET after == forecast_move(g, m)
                count(r) == Len(get_legal_moves(forecast_move(after, r), opponent))
            IN SumOver(count, get_legal_moves(after, opponent))
    IN SumOver(replies, get_legal_moves(g, player))

\* C9: on a board that is neither lost nor won for the player, the two-ply
\* lookahead heuristic returns S_own - weight * S_opp, the weight being 1
\* when none is given.
C9_TwoPlyLookahead ==
    (last.op = "score" /\ agent.score = "farsighted_score"
       /\ ~is_loser(game, last.player) /\ ~is_winner(game, last.player)) =>
        last.v = F(S_own(game, last.player)
                   - KwWeight(last.kwargs, 1) * S_opp(game, last.player))

\* ------------------------------------------------------------ C10
\* C10: HumanPlayer returns only on a line that is an integer i with
\* 0 <= i < n, n the number of legal moves, and then returns legal_moves[i];
\* any other line makes it ask again, without failing; with no legal move it
\* returns (-1, -1) and reads nothing.
C10_HumanRepromptsUntilValid ==
    (agent.kind = "Human" /\ last.op \in {"get_move", "prompt"}) =>
        LET heard == last.heard
            n == Len(heard)
        IN /\ last.exc = "none"
           /\ \A k \in 1..(n - 1) : heard[k] = -1
           /\ last.op = "prompt" => pc = "input" /\ (n > 0 => heard[n] = -1)
           /\ (last.op = "get_move" /\ LegalNow # <<>>) =>
                 /\ n > 0 /\ heard[n] >= 0
                 /\ last.v = LegalNow[heard[n] + 1]
           /\ (last.op = "get_move" /\ LegalNow = <<>>) =>
                 /\ last.v = NO_MOVE
                 /\ "input" \notin Range(last.log)

\* a move returned on the second line, the first having been refused
C10_AskedAgain ==
    /\ agent.kind = "Human" /\ last.op = "get_move"
    /\ Len(last.heard) = 2 /\ last.heard[1] = -1 /\ last.heard[2] = 1
    /\ last.v = LegalNow[2]

\* ------------------------------------------------------------ C11
\* the search recorded in last read a clock value below the threshold
TimedOut == Searching /\ Consulted(last.n) < agent.TIMER_THRESHOLD

\* C11: when the timeout fires anywhere in a MinimaxPlayer or AlphaBetaPlayer
\* search, also after root moves have been evaluated in full, get_move
\* returns (-1, -1) and never a move of the board: the best move so far is
\* dropped.
C11_NoBestSoFar ==
    TimedOut =>
        /\ last.exc = "none"
        /\ last.v = NO_MOVE
        /\ ~IsLegal(game, last.v)

\* a one-ply search that had scored its first root move when the clock ran
\* out on a later one
C11_AbortAfterRootMove ==
    /\ TimedOut /\ agent.search_depth = 1 /\ Len(LegalNow) >= 2
    /\ "score" \in Range(last.log)
    /\ last.v = NO_MOVE

\* ------------------------------------------------------------ C12
\* the invocations the property speaks of: the root search, the min layer
\* and the max layer
Frames == {"minimax", "alphabeta", "_min_value", "_max_value"}

\* the number of clock readings among the first i entries of the log
ReadingsUpTo(i) == Cardinality({j \in 1..i : last.log[j] = "time_left"})

\* C12: every invocation of the root search, the min layer and the max layer
\* of either search agent reads the clock before it asks the board anything
\* and before it evaluates the heuristic; when that reading is below the
\* threshold the invocation does neither.
C12_ClockFirst ==
    Searching =>
        /\ last.log[1] \in Frames
        /\ \A i \in 1..Len(last.log) :
              last.log[i] \in Frames =>
                  /\ i < Len(last.log) /\ last.log[i + 1] = "time_left"
                  /\ Consulted(ReadingsUpTo(i + 1)) < agent.TIMER_THRESHOLD =>
                        i + 1 = Len(last.log)

\* a max layer entered with the clock already below the threshold
C12_MaxLayerOutOfTime ==
    /\ TimedOut /\ Len(last.log) >= 2
    /\ last.log[Len(last.log) - 1] = "_max_value"
    /\ last.log[Len(last.log)] = "time_left"

\* ------------------------------------------------------------ C15
\* what MinimaxPlayer returns on the board, clock, depth and heuristic of
\* the call recorded in last
MinimaxMove == MM_get_move(Self(agent, game, agent.time_left), game).v

\* C15: with a clock that never drops below the threshold, AlphaBetaPlayer
\* returns the very move MinimaxPlayer returns on the same board with the
\* same depth and heuristic, also when several root moves share the best
\* value.
C15_SameMove ==
    (Searching /\ agent.kind = "AlphaBeta" /\ Unlimited(agent.time_left)) =>
        last.exc = "none" /\ last.v = MinimaxMove

\* a pruned search three plies deep that returned minimax's move, not the
\* first root move, while a later root move had the same value
C15_PrunedTie ==
    /\ Searching /\ agent.kind = "AlphaBeta" /\ Unlimited(agent.time_left)
    /\ agent.search_depth = 3 /\ IsLegal(game, last.v)
    /\ last.v = MinimaxMove /\ last.v # LegalNow[1]
    /\ Len(last.log) < Len(MM_get_move(Self(agent, game, agent.time_left), game).log)
    /\ \E j, k \in 1..Len(LegalNow) :
          /\ j < k /\ LegalNow[j] = last.v
          /\ RootValue(LegalNow[k], 3) = RootValue(last.v, 3)

\* ------------------------------------------------------------ C13
\* the agent as its constructor left it
AsConstructed(a) ==
    IsolationPlayer(a.kind, a.search_depth, a.score, a.TIMER_THRESHOLD)

\* what a search agent just constructed with a's configuration returns on
\* board g under the time query time_left
FreshResult(a, g, time_left) ==
    IF a.kind = "Minimax"
    THEN MM_get_move(Self(AsConstructed(a), g, time_left), g)
    ELSE AB_get_move(Self(AsConstructed(a), g, time_left), g)

\* one step of the program, seen from the agent object
C13_Step ==
    /\ agent'.kind = agent.kind
    /\ agent'.search_depth = agent.search_depth
    /\ agent'.score = agent.score
    /\ agent'.TIMER_THRESHOLD = agent.TIMER_THRESHOLD
    /\ (agent.kind \in {"Minimax", "AlphaBeta"}
          /\ last.op = "none" /\ last'.op = "get_move") =>
          /\ agent'.time_left \in Timers
          /\ game' = game
          /\ \A r \in {FreshResult(agent, game, agent'.time_left)} :
                /\ last'.v = r.v /\ last'.exc = r.exc
                /\ last'.n = r.n /\ last'.log = r.log

\* C13: over any sequence of get_move calls on one search agent, get_move
\* never changes search_depth, the heuristic or the threshold, it stores the
\* time query of the call in place of the old one, and what it returns is
\* what an agent just constructed with the same configuration returns on
\* that board under that time query, also after a call that timed out.
C13_CallsAreIndependent == [][C13_Step]_vars

\* a call that returned a move of the board under a clock with time to
\* spare, made right after a call of the same agent that had timed out
C13_MoveAfterTimeout ==
    /\ prev = "timeout" /\ Searching
    /\ Unlimited(agent.time_left) /\ IsLegal(game, last.v)
    /\ last.v = FreshResult(agent, game, agent.time_left).v

\* ------------------------------------------------------------ C14
\* some position at which a full walk of the tree below g, d plies deep,
\* evaluates the heuristic is one where the heuristic h raises
RECURSIVE SomeLeafRaises(_, _, _, _)
SomeLeafRaises(h, me, g, d) ==
    LET moves == get_legal_moves(g, active_player(g))
    IN IF d = 0 \/ moves = <<>> THEN ScoreRaises(h, g, me)
       ELSE \E m \in Range(moves) : SomeLeafRaises(h, me, forecast_move(g, m), d - 1)

\* the number of heuristic evaluations in the record of the call
Evaluations == Cardinality({i \in 1..Len(last.log) : last.log[i] = "score"})

\* C14: get_move of either search agent turns only the timeout into
\* (-1, -1).  An exception of another kind raised by the heuristic during
\* the search comes out of get_move as it is: it is not reported as a
\* timeout and no move, sentinel or other, is returned in its place.
C14_OnlyTimeoutCaught ==
    Searching =>
        /\ last.exc \in {"none", "IndexError"}
        /\ last.v = NO_MOVE => TimedOut /\ last.exc = "none"
        /\ last.exc = "IndexError" =>
              /\ last.v = None /\ ~TimedOut
              /\ last.log[Len(last.log)] = "score"
        /\ (Unlimited(agent.time_left)
              /\ (agent.kind = "Minimax" \/ agent.search_depth = 1)
              /\ \E m \in Range(LegalNow) :
                    SomeLeafRaises(agent.score, active_player(game),
                                   forecast_move(game, m), agent.search_depth - 1)) =>
              last.exc = "IndexError"

\* a search several plies deep in which the heuristic raised after it had
\* answered at other positions, and the exception left get_move
C14_FaultEscapes ==
    /\ Searching /\ agent.search_depth >= 2
    /\ last.exc = "IndexError" /\ last.v = None
    /\ Evaluations >= 3

====
